---------------------------- MODULE Spec2Model ----------------------------
(***************************************************************************)
(* Model of unaprob.py: a fixed graph of circuit components updated once   *)
(* per tick in a fixed order, the QuantumBox coordinate / reset /          *)
(* termination state machine, and the frame loop of                        *)
(* CircuitSimulation.run_simulation_for_gif.                               *)
(*                                                                         *)
(* Drawing, fonts and the GIF file are not modelled; neither are the       *)
(* informational accumulators time_coordinate and CircuitSimulation.time,  *)
(* which no update rule reads.                                             *)
(***************************************************************************)
EXTENDS Integers, Sequences, FiniteSets, TLC

(***************************************************************************)
(* IEEE-754 binary64 arithmetic.                                           *)
(*                                                                         *)
(* p and t are Python floats.  Every value the program computes is an      *)
(* integer multiple of 2^-57 (the unit in the last place of the double     *)
(* 0.05).  Writing M = 7205759403792794 for the double 0.05 in that unit,  *)
(* a float is the pair <<n, e>> standing for n*M + e units, with e small   *)
(* against M.  The powers of two are 2^55 = 5M-2, 2^56 = 10M-4,            *)
(* 2^57 = 20M-8, 2^58 = 40M-16, and 2^53 = 1.25M, 2^54 = 2.5M lie strictly *)
(* between multiples of M, so order and binade are decided on the pair.    *)
(* Rounding is to nearest, ties to even, on the 53-bit grid of the binade. *)
(* The representation covers magnitudes below 4.0.                         *)
(***************************************************************************)
MMod == 26                       \* M modulo 128
Zero == <<0, 0>>                 \* 0.0
One == <<20, -8>>                \* 1.0
Half == <<10, -4>>               \* 0.5
Step005 == <<1, 0>>              \* the literal 0.05
MinusOne == <<-20, 8>>           \* -1.0
MinusHalf == <<-10, 4>>          \* -0.5

FNeg(a) == <<-a[1], -a[2]>>

FLt(a, b) == a[1] < b[1] \/ (a[1] = b[1] /\ a[2] < b[2])

FGe(a, b) == ~FLt(a, b)

FAbs(a) == IF FLt(a, Zero) THEN FNeg(a) ELSE a

FMax(a, b) == IF FLt(a, b) THEN b ELSE a

\* spacing of the doubles around a non-negative value, in units of 2^-57
Ulp(a) ==
  IF FGe(a, <<40, -16>>) THEN 64
  ELSE IF FGe(a, One) THEN 32
  ELSE IF FGe(a, Half) THEN 16
  ELSE IF FGe(a, <<5, -2>>) THEN 8
  ELSE IF a[1] >= 3 THEN 4
  ELSE IF a[1] >= 2 THEN 2
  ELSE 1

Residue(a, m) == (a[1] * MMod + a[2]) % m

\* round a non-negative exact sum to the nearest double, ties to even
RoundPos(a) ==
  LET u == Ulp(a)
      r == Residue(a, u)
      odd == Residue(a, 2 * u) >= u
  IN  IF r = 0 THEN a
      ELSE IF 2 * r < u \/ (2 * r = u /\ ~odd) THEN <<a[1], a[2] - r>>
      ELSE <<a[1], a[2] + (u - r)>>

FRound(a) == IF FLt(a, Zero) THEN FNeg(RoundPos(FNeg(a))) ELSE RoundPos(a)

FAdd(a, b) == FRound(<<a[1] + b[1], a[2] + b[2]>>)

FSub(a, b) == FAdd(a, FNeg(b))


(***************************************************************************)
(* Components.  An input is seen by an update rule as the record           *)
(* [type, name, state] of the component it refers to.                      *)
(***************************************************************************)
ComponentState == {"OFF", "ON", "ACTIVE", "INACTIVE", "OPEN", "CLOSED"}

AnyInput(ins, P(_)) == \E i \in 1..Len(ins) : P(ins[i])

\* PowerSource.update
PowerSourceUpdate == "ON"

\* LED.update
LEDUpdate_PowerSourceOnly(ins) ==
  LET power_on ==
        AnyInput(ins, LAMBDA c : c.type = "PowerSource" /\ c.state = "ON")
      button_pressed ==
        AnyInput(ins, LAMBDA c : c.type = "PowerButton" /\ c.state = "CLOSED")
  IN  IF power_on /\ button_pressed THEN "ON" ELSE "OFF"

LEDUpdate(ins) ==
  LET power_on == AnyInput(ins, LAMBDA c : c.state = "ON")
      button_pressed ==
        AnyInput(ins, LAMBDA c : c.type = "PowerButton" /\ c.state = "CLOSED")
  IN  IF power_on /\ button_pressed THEN "ON" ELSE "OFF"

\* Phototransistor.update
PhototransistorUpdate(ins) ==
  LET led_on == AnyInput(ins, LAMBDA c : c.type = "LED" /\ c.state = "ON")
      power_on ==
        AnyInput(ins, LAMBDA c : c.type = "PowerSource" /\ c.state = "ON")
  IN  IF led_on /\ power_on THEN "ACTIVE" ELSE "INACTIVE"

\* Resistor.update
ResistorUpdate_ByType(ins) ==
  LET quantum_box == AnyInput(ins, LAMBDA c : c.type = "QuantumBox")
  IN  IF quantum_box THEN "ACTIVE" ELSE "INACTIVE"

ResistorUpdate(ins) ==
  LET quantum_box == AnyInput(ins, LAMBDA c : c.name = "Quantum Box")
  IN  IF quantum_box THEN "ACTIVE" ELSE "INACTIVE"

\* PowerButton.press, on the pair [state, pressed]
Press_NoSync(b) == [state |-> b.state, pressed |-> ~b.pressed]

Press(b) ==
  LET np == ~b.pressed
  IN  [state |-> IF np THEN "CLOSED" ELSE "OPEN", pressed |-> np]

\* PowerButton.update, on the pair [state, pressed]
PowerButtonUpdate_AnyOn(ins, b) ==
  LET power_on == AnyInput(ins, LAMBDA c : c.state = "ON")
  IN  IF ~power_on THEN [state |-> "OPEN", pressed |-> FALSE] ELSE b

PowerButtonUpdate(ins, b) ==
  LET power_on ==
        AnyInput(ins, LAMBDA c : c.type = "PowerSource" /\ c.state = "ON")
  IN  IF ~power_on THEN [state |-> "OPEN", pressed |-> FALSE] ELSE b

\* TunnelDiode.update; draw stands for random.random() < tunnel_probability
TunnelDiodeUpdate_NoGate(ins, draw) == IF draw THEN "ACTIVE" ELSE "INACTIVE"

TunnelDiodeUpdate_AnyClosed(ins, draw) ==
  LET button_active == AnyInput(ins, LAMBDA c : c.state = "CLOSED")
  IN  IF button_active /\ draw THEN "ACTIVE" ELSE "INACTIVE"

TunnelDiodeUpdate(ins, draw) ==
  LET button_active ==
        AnyInput(ins, LAMBDA c : c.type = "PowerButton" /\ c.state = "CLOSED")
  IN  IF button_active /\ draw THEN "ACTIVE" ELSE "INACTIVE"

\* DetermineSelection.update
DetermineSelectionUpdate(ins) ==
  LET phototransistor_active ==
        AnyInput(ins, LAMBDA c : c.type = "Phototransistor" /\ c.state = "ACTIVE")
  IN  IF phototransistor_active THEN "ACTIVE" ELSE "INACTIVE"

(***************************************************************************)
(* QuantumBox.  q is the record of the box's fields.  The probability      *)
(* field is a function of (t, p) only; it is represented by the pair it    *)
(* was last computed from.                                                 *)
(***************************************************************************)
update_probability_field(q) == [q EXCEPT !.probability_field = <<q.t, q.p>>]

DisplayState_AboveHalf(q) == IF FLt(Half, q.p) THEN "ACTIVE" ELSE "INACTIVE"

DisplayState(q) == IF FLt(Zero, q.p) THEN "ACTIVE" ELSE "INACTIVE"

\* abs(self.p - 1.0) < 0.05 and abs(self.t - 1.0) < 0.05
FinalStateReached_Exact(q) == q.p = One /\ q.t = One

FinalStateReached(q) ==
  /\ FLt(FAbs(FSub(q.p, One)), Step005)
  /\ FLt(FAbs(FSub(q.t, One)), Step005)

\* the reset logic, the lower clamp, the field and the display state
ResetAndClamp_CountPOnly(q) ==
  LET p_reset == FGe(q.p, One)
      t_reset == FGe(q.t, One)
      q1 == IF p_reset
            THEN [q EXCEPT !.p = Half, !.p_reset_count = @ + 1] ELSE q
      q2 == IF t_reset
            THEN [q1 EXCEPT !.t = MinusHalf, !.t_reset_count = @ + 1] ELSE q1
      q3 == IF p_reset
            THEN [q2 EXCEPT !.reset_count = @ + 1] ELSE q2
      q4 == [q3 EXCEPT !.p = FMax(MinusOne, @), !.t = FMax(MinusOne, @)]
      q5 == update_probability_field(q4)
  IN  [q5 EXCEPT !.state = DisplayState(q5)]

ResetAndClamp_PResetValue(q) ==
  LET p_reset == FGe(q.p, One)
      t_reset == FGe(q.t, One)
      q1 == IF p_reset
            THEN [q EXCEPT !.p = MinusHalf, !.p_reset_count = @ + 1] ELSE q
      q2 == IF t_reset
            THEN [q1 EXCEPT !.t = MinusHalf, !.t_reset_count = @ + 1] ELSE q1
      q3 == IF p_reset \/ t_reset
            THEN [q2 EXCEPT !.reset_count = @ + 1] ELSE q2
      q4 == [q3 EXCEPT !.p = FMax(MinusOne, @), !.t = FMax(MinusOne, @)]
      q5 == update_probability_field(q4)
  IN  [q5 EXCEPT !.state = DisplayState(q5)]

ResetAndClamp_NoTReset(q) ==
  LET p_reset == FGe(q.p, One)
      q1 == IF p_reset
            THEN [q EXCEPT !.p = Half, !.p_reset_count = @ + 1] ELSE q
      q3 == IF p_reset
            THEN [q1 EXCEPT !.reset_count = @ + 1] ELSE q1
      q4 == [q3 EXCEPT !.p = FMax(MinusOne, @), !.t = FMax(MinusOne, @)]
      q5 == update_probability_field(q4)
  IN  [q5 EXCEPT !.state = DisplayState(q5)]

ResetAndClamp(q) ==
  LET p_reset == FGe(q.p, One)
      t_reset == FGe(q.t, One)
      q1 == IF p_reset
            THEN [q EXCEPT !.p = Half, !.p_reset_count = @ + 1] ELSE q
      q2 == IF t_reset
            THEN [q1 EXCEPT !.t = MinusHalf, !.t_reset_count = @ + 1] ELSE q1
      q3 == IF p_reset \/ t_reset
            THEN [q2 EXCEPT !.reset_count = @ + 1] ELSE q2
      q4 == [q3 EXCEPT !.p = FMax(MinusOne, @), !.t = FMax(MinusOne, @)]
      q5 == update_probability_field(q4)
  IN  [q5 EXCEPT !.state = DisplayState(q5)]

\* advance t by dt * 0.5 and p by the gating signals
Advance(q, determine_active, tunnel_active, dthalf) ==
  LET q1 == [q EXCEPT !.t = FAdd(@, dthalf)]
      q2 == IF determine_active THEN [q1 EXCEPT !.p = FAdd(@, Step005)] ELSE q1
  IN  IF tunnel_active THEN [q2 EXCEPT !.p = FSub(@, Step005)] ELSE q2

\* QuantumBox.update
QuantumBoxUpdate_NoStoppedGuard(ins, q, dthalf) ==
  LET determine_active ==
        AnyInput(ins, LAMBDA c : c.type = "DetermineSelection" /\ c.state = "ACTIVE")
      tunnel_active ==
        AnyInput(ins, LAMBDA c : c.type = "TunnelDiode" /\ c.state = "ACTIVE")
      q2 == Advance(q, determine_active, tunnel_active, dthalf)
  IN  IF FinalStateReached(q2)
      THEN [q2 EXCEPT !.simulation_stopped = TRUE, !.p = One, !.t = One]
      ELSE ResetAndClamp(q2)

QuantumBoxUpdate_ResetFirst(ins, q, dthalf) ==
  LET determine_active ==
        AnyInput(ins, LAMBDA c : c.type = "DetermineSelection" /\ c.state = "ACTIVE")
      tunnel_active ==
        AnyInput(ins, LAMBDA c : c.type = "TunnelDiode" /\ c.state = "ACTIVE")
      q2 == ResetAndClamp(Advance(q, determine_active, tunnel_active, dthalf))
  IN  IF q.simulation_stopped
      THEN [q EXCEPT !.state = DisplayState(q)]
      ELSE IF FinalStateReached(q2)
      THEN [q2 EXCEPT !.simulation_stopped = TRUE, !.p = One, !.t = One]
      ELSE q2

QuantumBoxUpdate_FieldOnStop(ins, q, dthalf) ==
  LET determine_active ==
        AnyInput(ins, LAMBDA c : c.type = "DetermineSelection" /\ c.state = "ACTIVE")
      tunnel_active ==
        AnyInput(ins, LAMBDA c : c.type = "TunnelDiode" /\ c.state = "ACTIVE")
      q2 == Advance(q, determine_active, tunnel_active, dthalf)
  IN  IF q.simulation_stopped
      THEN [q EXCEPT !.state = DisplayState(q)]
      ELSE IF FinalStateReached(q2)
      THEN update_probability_field(
             [q2 EXCEPT !.simulation_stopped = TRUE, !.p = One, !.t = One])
      ELSE ResetAndClamp(q2)

QuantumBoxUpdate(ins, q, dthalf) ==
  LET determine_active ==
        AnyInput(ins, LAMBDA c : c.type = "DetermineSelection" /\ c.state = "ACTIVE")
      tunnel_active ==
        AnyInput(ins, LAMBDA c : c.type = "TunnelDiode" /\ c.state = "ACTIVE")
      q2 == Advance(q, determine_active, tunnel_active, dthalf)
  IN  IF q.simulation_stopped
      THEN [q EXCEPT !.state = DisplayState(q)]
      ELSE IF FinalStateReached(q2)
      THEN [q2 EXCEPT !.simulation_stopped = TRUE, !.p = One, !.t = One]
      ELSE ResetAndClamp(q2)

\* QuantumBox.__init__
QuantumBoxInit ==
  [state |-> "OFF", p |-> Half, t |-> MinusHalf,
   probability_field |-> <<MinusHalf, Half>>, simulation_stopped |-> FALSE,
   reset_count |-> 0, p_reset_count |-> 0, t_reset_count |-> 0]

(***************************************************************************)
(* CircuitSimulation: the eight components, their wiring and update order. *)
(***************************************************************************)
Comps == {"power_source", "led", "phototransistor", "resistor", "power_button",
          "tunnel_diode", "determine_selection", "quantum_box"}

\* the class of each component
TypeOf ==
  [c \in Comps |->
     CASE c = "power_source" -> "PowerSource"
       [] c = "led" -> "LED"
       [] c = "phototransistor" -> "Phototransistor"
       [] c = "resistor" -> "Resistor"
       [] c = "power_button" -> "PowerButton"
       [] c = "tunnel_diode" -> "TunnelDiode"
       [] c = "determine_selection" -> "DetermineSelection"
       [] c = "quantum_box" -> "QuantumBox"]

\* the default name each constructor passes to CircuitComponent.__init__
NameOf ==
  [c \in Comps |->
     CASE c = "power_source" -> "Power Source"
       [] c = "led" -> "LED"
       [] c = "phototransistor" -> "Phototransistor"
       [] c = "resistor" -> "Resistor"
       [] c = "power_button" -> "Power Button"
       [] c = "tunnel_diode" -> "Tunnel Diode"
       [] c = "determine_selection" -> "Determine Selection"
       [] c = "quantum_box" -> "Quantum Box"]

\* CircuitComponent.add_input: a.add_input(b)
add_input_NoBackEdge(io, a, b) ==
  [inputs |-> [io.inputs EXCEPT ![a] = Append(@, b)], outputs |-> io.outputs]

add_input(io, a, b) ==
  [inputs |-> [io.inputs EXCEPT ![a] = Append(@, b)],
   outputs |-> [io.outputs EXCEPT ![b] = Append(@, a)]]

\* the add_input calls of CircuitSimulation.__init__, in order
Connections ==
  << <<"led", "power_source">>, <<"led", "power_button">>, <<"led", "resistor">>,
     <<"phototransistor", "power_source">>, <<"phototransistor", "led">>,
     <<"determine_selection", "phototransistor">>,
     <<"determine_selection", "power_source">>,
     <<"power_button", "power_source">>,
     <<"tunnel_diode", "power_button">>,
     <<"quantum_box", "determine_selection">>, <<"quantum_box", "tunnel_diode">>,
     <<"resistor", "quantum_box">> >>

RECURSIVE Connect(_, _)
Connect(io, k) ==
  IF k > Len(Connections) THEN io
  ELSE Connect(add_input(io, Connections[k][1], Connections[k][2]), k + 1)

\* the edge lists right after the constructors: self.inputs = [], self.outputs = []
Unwired == [inputs |-> [c \in Comps |-> <<>>], outputs |-> [c \in Comps |-> <<>>]]

Wired == Connect(Unwired, 1)

\* self.components
components_BoxFirst ==
  <<"quantum_box", "power_source", "led", "phototransistor", "resistor",
    "power_button", "tunnel_diode", "determine_selection">>

components_ButtonFirst ==
  <<"power_button", "power_source", "led", "phototransistor", "resistor",
    "tunnel_diode", "determine_selection", "quantum_box">>

components ==
  <<"power_source", "led", "phototransistor", "resistor", "power_button",
    "tunnel_diode", "determine_selection", "quantum_box">>

max_frames == 300
frames_after_final_state == 20
\* self.dt * 0.5 with self.dt = 0.1: halving the double 0.1 is exact and
\* gives the double 0.05
DtHalf == Step005

VARIABLES
  state,                \* state of each component
  pressed,              \* power_button.pressed
  p, t,                 \* quantum_box.p, quantum_box.t
  probability_field,    \* quantum_box.probability_field
  simulation_stopped,   \* quantum_box.simulation_stopped
  reset_count, p_reset_count, t_reset_count,
  inputs, outputs,      \* the edge lists of each component
  frame_count,          \* run_simulation_for_gif: frame_count
  final_state_frames,   \* run_simulation_for_gif: final_state_frames
  pc,                   \* "loop" while the frame loop runs, "done" after it
  stop_tick,            \* history: frame in whose tick the box stopped, or 0
  ucomp, uin, uprev, ulast   \* a single component on arbitrary inputs

simvars == <<state, pressed, p, t, probability_field, simulation_stopped,
             reset_count, p_reset_count, t_reset_count, inputs, outputs,
             frame_count, final_state_frames, pc, stop_tick>>

unitvars == <<ucomp, uin, uprev, ulast>>

vars == <<simvars, unitvars>>

\* the components and the box as one value, threaded through the updates
World ==
  [state |-> state, pressed |-> pressed,
   q |-> [state |-> state["quantum_box"], p |-> p, t |-> t,
          probability_field |-> probability_field,
          simulation_stopped |-> simulation_stopped,
          reset_count |-> reset_count, p_reset_count |-> p_reset_count,
          t_reset_count |-> t_reset_count]]

\* what an update rule of c reads: its inputs with their current state
Ins(c, w) ==
  [i \in 1..Len(inputs[c]) |->
     [type |-> TypeOf[inputs[c][i]], name |-> NameOf[inputs[c][i]],
      state |-> w.state[inputs[c][i]]]]

\* self.power_button.press()
PressButton(w) ==
  LET b == Press([state |-> w.state["power_button"], pressed |-> w.pressed])
  IN  [w EXCEPT !.state["power_button"] = b.state, !.pressed = b.pressed]

\* component.update(dt), dispatched on the class of c
UpdateComponent(c, w, draw) ==
  CASE TypeOf[c] = "PowerSource" ->
         [w EXCEPT !.state[c] = PowerSourceUpdate]
    [] TypeOf[c] = "LED" ->
         [w EXCEPT !.state[c] = LEDUpdate(Ins(c, w))]
    [] TypeOf[c] = "Phototransistor" ->
         [w EXCEPT !.state[c] = PhototransistorUpdate(Ins(c, w))]
    [] TypeOf[c] = "Resistor" ->
         [w EXCEPT !.state[c] = ResistorUpdate(Ins(c, w))]
    [] TypeOf[c] = "PowerButton" ->
         LET b == PowerButtonUpdate(Ins(c, w),
                    [state |-> w.state[c], pressed |-> w.pressed])
         IN  [w EXCEPT !.state[c] = b.state, !.pressed = b.pressed]
    [] TypeOf[c] = "TunnelDiode" ->
         [w EXCEPT !.state[c] = TunnelDiodeUpdate(Ins(c, w), draw)]
    [] TypeOf[c] = "DetermineSelection" ->
         [w EXCEPT !.state[c] = DetermineSelectionUpdate(Ins(c, w))]
    [] TypeOf[c] = "QuantumBox" ->
         LET q == QuantumBoxUpdate(Ins(c, w), w.q, DtHalf)
         IN  [w EXCEPT !.state[c] = q.state, !.q = q]

\* for component in self.components: component.update(dt)
RECURSIVE UpdateAll(_, _, _)
UpdateAll(k, w, draw) ==
  IF k > Len(components) THEN w
  ELSE UpdateAll(k + 1, UpdateComponent(components[k], w, draw), draw)

\* CircuitSimulation.update_simulation; press stands for random.random() < 0.02
update_simulation(w, press, draw) ==
  UpdateAll(1, IF press THEN PressButton(w) ELSE w, draw)

\* while frame_count < self.max_frames
LoopCondition_OneLess(fc) == fc < max_frames - 1

LoopCondition_OneMore(fc) == fc <= max_frames

LoopCondition(fc) == fc < max_frames

\* the break test at the end of the loop body
BreakTest_Strict(stopped, fsf) == stopped /\ fsf > frames_after_final_state

BreakTest(stopped, fsf) == stopped /\ fsf >= frames_after_final_state

\* the constructors, the forced button state and the loop's local variables
ConstructInit ==
  /\ state = [c \in Comps |-> IF c = "power_button" THEN "CLOSED" ELSE "OFF"]
  /\ pressed = TRUE
  /\ p = QuantumBoxInit.p
  /\ t = QuantumBoxInit.t
  /\ probability_field = QuantumBoxInit.probability_field
  /\ simulation_stopped = QuantumBoxInit.simulation_stopped
  /\ reset_count = QuantumBoxInit.reset_count
  /\ p_reset_count = QuantumBoxInit.p_reset_count
  /\ t_reset_count = QuantumBoxInit.t_reset_count
  /\ frame_count = 0
  /\ final_state_frames = 0
  /\ pc = "loop"
  /\ stop_tick = 0

\* CircuitSimulation.__init__ and the start of run_simulation_for_gif
SimInit ==
  /\ ConstructInit
  /\ inputs = Wired.inputs
  /\ outputs = Wired.outputs

\* one iteration of the frame loop: the tick, the frame, the exit tests
Tick(press, draw) ==
  /\ pc = "loop"
  /\ LoopCondition(frame_count)
  /\ \E w \in {update_simulation(World, press, draw)} :
       \E fsf \in {IF w.q.simulation_stopped
                   THEN final_state_frames + 1 ELSE final_state_frames} :
         /\ state' = w.state
         /\ pressed' = w.pressed
         /\ p' = w.q.p
         /\ t' = w.q.t
         /\ probability_field' = w.q.probability_field
         /\ simulation_stopped' = w.q.simulation_stopped
         /\ reset_count' = w.q.reset_count
         /\ p_reset_count' = w.q.p_reset_count
         /\ t_reset_count' = w.q.t_reset_count
         /\ final_state_frames' = fsf
         /\ frame_count' = frame_count + 1
         /\ stop_tick' = IF ~simulation_stopped /\ w.q.simulation_stopped
                         THEN frame_count + 1 ELSE stop_tick
         /\ pc' = IF BreakTest(w.q.simulation_stopped, fsf)
                     \/ ~LoopCondition(frame_count + 1)
                  THEN "done" ELSE "loop"
  /\ UNCHANGED <<inputs, outputs>>

(***************************************************************************)
(* A single component with an arbitrary list of inputs: ucomp is the       *)
(* component (its class, state and, for a PowerButton, pressed), uin the   *)
(* [type, name, state] records of its inputs, uprev the component before   *)
(* the last call and ulast the last call made on it.                       *)
(***************************************************************************)
MaxInputs == 2

UKinds == {"LED", "Resistor", "PowerButton", "TunnelDiode"}

UTypes == {"CircuitComponent", "PowerSource", "PowerButton", "QuantumBox"}

UNames == {"Quantum Box", "Power Source"}

UInputs == [type : UTypes, name : UNames, state : ComponentState]

UInputSeqs == UNION {[1..n -> UInputs] : n \in 0..MaxInputs}

\* the constructors: CircuitComponent sets OFF, PowerButton then sets OPEN
UConstruct(k) ==
  [kind |-> k, state |-> IF k = "PowerButton" THEN "OPEN" ELSE "OFF",
   pressed |-> FALSE]

UnitInit ==
  /\ ucomp \in {UConstruct(k) : k \in UKinds}
  /\ uin \in UInputSeqs
  /\ uprev = ucomp
  /\ ulast = "init"

UCall(op, next) ==
  /\ ucomp' = next
  /\ uprev' = ucomp
  /\ ulast' = op
  /\ UNCHANGED uin

ULEDUpdate ==
  /\ ucomp.kind = "LED"
  /\ UCall("update", [ucomp EXCEPT !.state = LEDUpdate(uin)])

UResistorUpdate ==
  /\ ucomp.kind = "Resistor"
  /\ UCall("update", [ucomp EXCEPT !.state = ResistorUpdate(uin)])

UPowerButtonUpdate ==
  /\ ucomp.kind = "PowerButton"
  /\ LET b == PowerButtonUpdate(uin, [state |-> ucomp.state,
                                      pressed |-> ucomp.pressed])
     IN  UCall("update", [ucomp EXCEPT !.state = b.state, !.pressed = b.pressed])

UTunnelDiodeUpdate ==
  /\ ucomp.kind = "TunnelDiode"
  /\ \E draw \in BOOLEAN :
       UCall("update", [ucomp EXCEPT !.state = TunnelDiodeUpdate(uin, draw)])

UPowerButtonPress ==
  /\ ucomp.kind = "PowerButton"
  /\ LET b == Press([state |-> ucomp.state, pressed |-> ucomp.pressed])
     IN  UCall("press", [ucomp EXCEPT !.state = b.state, !.pressed = b.pressed])

(***************************************************************************)
(* Specifications.                                                         *)
(***************************************************************************)
UnitIdle ==
  /\ ucomp = UConstruct("LED")
  /\ uin = <<>>
  /\ uprev = ucomp
  /\ ulast = "init"

Init == SimInit /\ UnitIdle

Next == (\E press \in BOOLEAN, draw \in BOOLEAN : Tick(press, draw))
          /\ UNCHANGED unitvars

\* the wired simulation run by the frame loop
Spec == Init /\ [][Next]_vars

UInit == SimInit /\ UnitInit

UNext ==
  \/ ULEDUpdate /\ UNCHANGED simvars
  \/ UResistorUpdate /\ UNCHANGED simvars
  \/ UPowerButtonUpdate /\ UNCHANGED simvars
  \/ UPowerButtonPress /\ UNCHANGED simvars
  \/ UTunnelDiodeUpdate /\ UNCHANGED simvars

\* one component on arbitrary inputs
UnitSpec == UInit /\ [][UNext]_vars

(***************************************************************************)
(* Arbitrary add_input calls, made before the first tick on the edge lists *)
(* left by the constructors or by CircuitSimulation.__init__, followed by  *)
(* ticks of the graph so built.                                            *)
(***************************************************************************)
MaxEdges == 3

MaxWireTicks == 2

WComps == {"led", "power_button", "power_source"}

RECURSIVE SumLen(_, _)
SumLen(f, S) ==
  IF S = {} THEN 0
  ELSE LET c == CHOOSE x \in S : TRUE IN Len(f[c]) + SumLen(f, S \ {c})

\* add_input calls made so far, beyond those of CircuitSimulation.__init__
NumAdded ==
  LET n == SumLen(inputs, Comps)
  IN  IF n >= Len(Connections) THEN n - Len(Connections) ELSE n

WInit ==
  /\ ConstructInit
  /\ \E io \in {Unwired, Wired} : inputs = io.inputs /\ outputs = io.outputs
  /\ UnitIdle

\* a.add_input(b)
WAddInput(a, b) ==
  /\ frame_count = 0
  /\ NumAdded < MaxEdges
  /\ \E io \in {add_input([inputs |-> inputs, outputs |-> outputs], a, b)} :
       inputs' = io.inputs /\ outputs' = io.outputs
  /\ UNCHANGED <<state, pressed, p, t, probability_field, simulation_stopped,
                 reset_count, p_reset_count, t_reset_count, frame_count,
                 final_state_frames, pc, stop_tick>>

WTick ==
  /\ frame_count < MaxWireTicks
  /\ \E press \in BOOLEAN, draw \in BOOLEAN : Tick(press, draw)

WNext ==
  \/ (\E a \in WComps, b \in WComps : WAddInput(a, b)) /\ UNCHANGED unitvars
  \/ WTick /\ UNCHANGED unitvars

WireSpec == WInit /\ [][WNext]_vars

TypeOK ==
  /\ state \in [Comps -> ComponentState]
  /\ pressed \in BOOLEAN
  /\ simulation_stopped \in BOOLEAN
  /\ reset_count \in Nat /\ p_reset_count \in Nat /\ t_reset_count \in Nat
  /\ frame_count \in 0..max_frames
  /\ final_state_frames \in 0..frames_after_final_state
  /\ pc \in {"loop", "done"}
  /\ stop_tick \in 0..max_frames

(***************************************************************************)
(* Properties.                                                             *)
(***************************************************************************)
Button == "power_button"

\* C1: Stopped is terminal: once simulation_stopped is true it stays true
\* across every later tick, and whenever it is true p and t are exactly 1.0.
C1_StoppedTerminal ==
  /\ [](simulation_stopped => (p = One /\ t = One))
  /\ [][simulation_stopped => simulation_stopped']_vars

\* a tick after the termination tick, in which the button has been opened
C1_Witness ==
  /\ simulation_stopped
  /\ final_state_frames >= 2
  /\ state[Button] = "OPEN"

\* C2 (as claimed): every run reaches a tick after which simulation_stopped
\* is true, so the frame loop never ends with the box still Running.
C2_Original == pc = "done" => simulation_stopped

\* C2 (amended): termination is not guaranteed; when the frame loop ends,
\* either simulation_stopped is true or all 300 ticks were executed.
C2_Amended ==
  (pc = "done" /\ ~simulation_stopped) => frame_count = max_frames

\* a run that did terminate, and whose loop ended before the cap
C2_Witness == pc = "done" /\ simulation_stopped /\ frame_count < max_frames

\* C3: reset_count lies between max(p_reset_count, t_reset_count) and
\* p_reset_count + t_reset_count in every reachable state.
C3_ResetCounts ==
  /\ reset_count <= p_reset_count + t_reset_count
  /\ reset_count >= p_reset_count
  /\ reset_count >= t_reset_count

\* both kinds of reset have fired
C3_Witness == p_reset_count >= 1 /\ t_reset_count >= 1 /\ reset_count >= 2

ButtonConsistent(st, pr) == st \in {"OPEN", "CLOSED"} /\ (st = "CLOSED" <=> pr)

\* C4: in the simulation the button's state is Open or Closed and is Closed
\* iff pressed, after every tick's updates and right after a press() call
\* made in any reachable state.
C4_ButtonConsistent ==
  /\ ButtonConsistent(state[Button], pressed)
  /\ LET w == PressButton(World)
     IN  /\ ButtonConsistent(w.state[Button], w.pressed)
         /\ w.pressed = ~pressed

\* the press trial has fired and the updates have run: the button is open
C4_Witness == frame_count >= 1 /\ state[Button] = "OPEN" /\ ~pressed

UPowered == \E i \in 1..Len(uin) : uin[i].type = "PowerSource" /\ uin[i].state = "ON"

\* C5: PowerButton.update with no On PowerSource input leaves the button
\* Open and not pressed, whatever pressed was before.
C5_ButtonUnpowered ==
  (ucomp.kind = "PowerButton" /\ ulast = "update" /\ ~UPowered)
    => (ucomp.state = "OPEN" /\ ucomp.pressed = FALSE)

\* a pressed, Closed button with only an On input of another type is updated
C5_Witness ==
  /\ ucomp.kind = "PowerButton" /\ ulast = "update" /\ ~UPowered
  /\ uprev.pressed /\ uprev.state = "CLOSED"
  /\ \E i \in 1..Len(uin) : uin[i].state = "ON"
  /\ ucomp.state = "OPEN"

\* C6: after LED.update the LED is On iff some input of any type is On and
\* some PowerButton input is Closed, and Off otherwise.
C6_LED ==
  (ucomp.kind = "LED" /\ ulast = "update")
    => /\ ucomp.state \in {"ON", "OFF"}
       /\ ucomp.state = "ON" <=>
            /\ \E i \in 1..Len(uin) : uin[i].state = "ON"
            /\ \E i \in 1..Len(uin) :
                 uin[i].type = "PowerButton" /\ uin[i].state = "CLOSED"

\* the LED is lit by an On input that is not a PowerSource
C6_Witness ==
  /\ ucomp.kind = "LED" /\ ulast = "update" /\ ucomp.state = "ON"
  /\ \A i \in 1..Len(uin) : uin[i].type # "PowerSource"

\* C7: after Resistor.update the Resistor is Active iff some input is named
\* "Quantum Box", whatever that input's type or state, and Inactive otherwise.
C7_Resistor ==
  (ucomp.kind = "Resistor" /\ ulast = "update")
    => /\ ucomp.state \in {"ACTIVE", "INACTIVE"}
       /\ ucomp.state = "ACTIVE" <=>
            \E i \in 1..Len(uin) : uin[i].name = "Quantum Box"

\* an Inactive dummy named "Quantum Box" next to a QuantumBox of another name
C7_Witness ==
  /\ ucomp.kind = "Resistor" /\ ulast = "update" /\ ucomp.state = "ACTIVE"
  /\ \E i \in 1..Len(uin) :
       /\ uin[i].name = "Quantum Box"
       /\ uin[i].type = "CircuitComponent"
       /\ uin[i].state = "INACTIVE"
  /\ \A i \in 1..Len(uin) : uin[i].type = "QuantumBox" => uin[i].name # "Quantum Box"

\* C8 (as claimed): a box that stops in tick T, with room for 20 more ticks
\* under the cap, has the loop end after tick T + 20.
C8_Original ==
  (pc = "done" /\ simulation_stopped /\ stop_tick + 20 <= max_frames)
    => frame_count = stop_tick + 20

\* C8 (amended): the frame of the stopping tick T counts as the first of the
\* 20 final-state frames, so when T + 19 <= 300 the loop runs 19 more ticks
\* after tick T and ends exactly after tick T + 19.
C8_Amended ==
  (simulation_stopped /\ stop_tick + 19 <= max_frames)
    => /\ final_state_frames = frame_count - stop_tick + 1
       /\ frame_count <= stop_tick + 19
       /\ pc = "done" <=> frame_count = stop_tick + 19

\* the loop has ended on the grace period, before the cap
C8_Witness ==
  /\ pc = "done" /\ simulation_stopped /\ frame_count < max_frames
  /\ final_state_frames = frames_after_final_state

\* C9: the loop executes at most 300 ticks (every iteration adds one to
\* frame_count, which never exceeds 300 and is below 300 while the loop
\* runs), and it ends before tick 300 only when the box is Stopped.
C9_LoopHalts ==
  /\ [](frame_count <= 300)
  /\ [](pc = "loop" => frame_count < 300)
  /\ []((pc = "done" /\ frame_count < 300) => simulation_stopped)
  /\ [][frame_count' = frame_count + 1]_vars

\* the loop has ended on the cap with the box still Running
C9_Witness == pc = "done" /\ frame_count = 300 /\ ~simulation_stopped

\* C10: p and t stay within [-1.0, 1.0] after every tick, and are strictly
\* below 1.0 while the box is Running.
C10_Bounds ==
  /\ FGe(p, MinusOne) /\ FGe(One, p)
  /\ FGe(t, MinusOne) /\ FGe(One, t)
  /\ ~simulation_stopped => (FLt(p, One) /\ FLt(t, One))

\* Running after both a p-reset and a t-reset, p just below 1.0
C10_Witness ==
  /\ ~simulation_stopped
  /\ p_reset_count >= 1 /\ t_reset_count >= 1
  /\ FLt(<<19, 0>>, p)

\* the DetermineSelection and TunnelDiode inputs of the box as they are at
\* the end of the tick being taken
SameTickIns ==
  << [type |-> "DetermineSelection", name |-> NameOf["determine_selection"],
      state |-> state'["determine_selection"]],
     [type |-> "TunnelDiode", name |-> NameOf["tunnel_diode"],
      state |-> state'["tunnel_diode"]] >>

\* p and t of the tick being taken after the step, before the termination
\* check and the resets
PostStep ==
  Advance(World.q, state'["determine_selection"] = "ACTIVE",
          state'["tunnel_diode"] = "ACTIVE", DtHalf)

\* C11: at the end of every tick LED On, button Closed, Phototransistor
\* Active and DetermineSelection Active all agree, and the box's update of
\* that tick is the one computed from the DetermineSelection and TunnelDiode
\* states of the same tick.
C11_SameTick ==
  /\ [](frame_count >= 1 =>
          /\ state["led"] = "ON" <=> state[Button] = "CLOSED"
          /\ state["phototransistor"] = "ACTIVE" <=> state[Button] = "CLOSED"
          /\ state["determine_selection"] = "ACTIVE" <=> state[Button] = "CLOSED")
  /\ [][\A q \in {QuantumBoxUpdate(SameTickIns, World.q, DtHalf)} :
          p' = q.p /\ t' = q.t /\ simulation_stopped' = q.simulation_stopped]_vars

\* the press of the first tick has reached the whole chain and p in that tick
C11_Witness ==
  /\ frame_count = 1
  /\ state[Button] = "OPEN" /\ state["led"] = "OFF"
  /\ state["phototransistor"] = "INACTIVE"
  /\ state["determine_selection"] = "INACTIVE"
  /\ p = Half

BoxCounts == <<reset_count, p_reset_count, t_reset_count>>

\* C12: a Running tick stops the box iff the post-step p and t are both
\* within 0.05 of 1.0; on that tick the three counters keep their values
\* and p and t become 1.0.
C12_TerminationFirst ==
  [][~simulation_stopped =>
       \A post \in {PostStep} :
         /\ simulation_stopped' <=>
              /\ FLt(FAbs(FSub(post.p, One)), Step005)
              /\ FLt(FAbs(FSub(post.t, One)), Step005)
         /\ simulation_stopped' =>
              (p' = One /\ t' = One /\ BoxCounts' = BoxCounts)]_vars

\* the termination tick itself, after earlier resets
C12_Witness ==
  /\ simulation_stopped /\ stop_tick = frame_count
  /\ p = One /\ t = One /\ reset_count >= 1

\* C13: on a Running tick that does not terminate, p is reset to 0.5 and
\* p_reset_count incremented iff post-step p >= 1.0, t is reset to -0.5 and
\* t_reset_count incremented iff post-step t >= 1.0, and reset_count is
\* incremented once iff at least one of the two fired.
C13_ResetRule ==
  [][(~simulation_stopped /\ ~simulation_stopped') =>
       \A post \in {PostStep} :
         \A p_reset \in {FGe(post.p, One)}, t_reset \in {FGe(post.t, One)} :
           /\ IF p_reset
              THEN p' = Half /\ p_reset_count' = p_reset_count + 1
              ELSE p' = post.p /\ p_reset_count' = p_reset_count
           /\ IF t_reset
              THEN t' = MinusHalf /\ t_reset_count' = t_reset_count + 1
              ELSE t' = post.t /\ t_reset_count' = t_reset_count
           /\ reset_count' =
                reset_count + (IF p_reset \/ t_reset THEN 1 ELSE 0)]_vars

\* right after a t-reset, with p-resets behind
C13_Witness ==
  /\ ~simulation_stopped
  /\ t = MinusHalf /\ t_reset_count >= 1
  /\ p_reset_count >= 2

\* C14: from the termination tick on, no tick changes the three counters or
\* the probability field, and the field of the Stopped state is the one
\* computed from the last (p, t) before termination, not from (1.0, 1.0).
C14_FrameAfterStop ==
  /\ [][simulation_stopped' =>
          (BoxCounts' = BoxCounts /\ probability_field' = probability_field)]_vars
  /\ [][(~simulation_stopped /\ simulation_stopped') =>
          probability_field' = <<t, p>>]_vars
  /\ [](simulation_stopped => probability_field # <<One, One>>)

\* some ticks after termination, following at least one reset
C14_Witness ==
  /\ simulation_stopped /\ final_state_frames >= 3
  /\ reset_count >= 1
  /\ probability_field # <<t, p>>

\* C16: after every QuantumBox.update in the simulation, the termination
\* tick and the ticks after it included, the box's state is Active if p > 0
\* and Inactive otherwise.
C16_DisplayState ==
  frame_count >= 1 =>
    state["quantum_box"] = (IF FLt(Zero, p) THEN "ACTIVE" ELSE "INACTIVE")

\* the termination tick, which returns before the state is recomputed
C16_Witness ==
  /\ simulation_stopped /\ stop_tick = frame_count
  /\ state["quantum_box"] = "ACTIVE"

\* C17: in every reachable state from which a tick is taken, whatever the
\* draw, the button's state and pressed flag at the end of the tick differ
\* from those at its start iff the press trial fired: PowerButton.update
\* itself never changes them.
C17_ButtonFrame ==
  pc = "loop" =>
    \A press \in BOOLEAN, draw \in BOOLEAN :
      \A w \in {update_simulation(World, press, draw)} :
        (w.state[Button] # state[Button] \/ w.pressed # pressed) <=> press

\* two ticks in, a press has opened the button
C17_Witness ==
  /\ frame_count = 2
  /\ state[Button] = "OPEN"
  /\ state["power_source"] = "ON"

\* C19: TunnelDiode Active implies DetermineSelection Active in the same
\* tick, so the step changes p by 0 or +0.05; p never decreases over a tick
\* except by the reset to 0.5; 0.5 <= p <= 1.0 always, so the lower clamp
\* never changes p, and the box is Active after every tick.
C19_PMonotone ==
  /\ [](state["tunnel_diode"] = "ACTIVE" => state["determine_selection"] = "ACTIVE")
  /\ [](FGe(p, Half) /\ FGe(One, p) /\ FMax(MinusOne, p) = p)
  /\ [](frame_count >= 1 => state["quantum_box"] = "ACTIVE")
  /\ [][~simulation_stopped =>
          /\ \A post \in {PostStep} : post.p \in {p, FAdd(p, Step005)}
          /\ FGe(p', p) \/ p' = Half]_vars

\* a tick in which the +0.05 and the -0.05 both applied
C19_Witness ==
  /\ frame_count >= 1
  /\ state["tunnel_diode"] = "ACTIVE" /\ state["determine_selection"] = "ACTIVE"
  /\ p = Half /\ p_reset_count = 0

\* C20: a p-reset and a t-reset never fire in the same tick: a post-step
\* p >= 1.0 together with t >= 1.0 terminates instead, so reset_count is the
\* sum of the two sub-counters in every reachable state.
C20_NoDoubleReset ==
  /\ [](reset_count = p_reset_count + t_reset_count)
  /\ [][~(p_reset_count' > p_reset_count /\ t_reset_count' > t_reset_count)]_vars
  /\ [][~simulation_stopped =>
          \A post \in {PostStep} :
            (FGe(post.p, One) /\ FGe(post.t, One)) => simulation_stopped']_vars

\* terminated on the second wrap of t, after resets of both kinds
C20_Witness ==
  /\ simulation_stopped /\ stop_tick = 60
  /\ p_reset_count >= 2 /\ t_reset_count = 1

UButtonClosed ==
  \E i \in 1..Len(uin) : uin[i].type = "PowerButton" /\ uin[i].state = "CLOSED"

\* C15: after TunnelDiode.update the diode is Active only if some PowerButton
\* input is Closed; without one the update can only give Inactive, with one
\* it can give Active or Inactive whatever the diode's state was.
C15_TunnelGate ==
  ucomp.kind = "TunnelDiode" =>
    /\ ulast = "update" =>
         /\ ucomp.state \in {"ACTIVE", "INACTIVE"}
         /\ ucomp.state = "ACTIVE" => UButtonClosed
    /\ {TunnelDiodeUpdate(uin, draw) : draw \in BOOLEAN} =
         (IF UButtonClosed THEN {"ACTIVE", "INACTIVE"} ELSE {"INACTIVE"})

\* an Active diode has gone Inactive with the button still Closed
C15_Witness ==
  /\ ucomp.kind = "TunnelDiode" /\ ulast = "update"
  /\ uprev.state = "ACTIVE" /\ ucomp.state = "INACTIVE"
  /\ UButtonClosed

Count(seq, x) == Cardinality({i \in 1..Len(seq) : seq[i] = x})

\* C18: after any sequence of add_input calls every edge is in inputs as
\* often as its reverse is in outputs; each call raises the multiplicity of
\* its pair by one, duplicates and self-edges included, and leaves the
\* others alone; no tick changes an inputs or outputs list.
C18_Edges ==
  /\ [](\A a \in Comps, b \in Comps : Count(inputs[a], b) = Count(outputs[b], a))
  /\ [][frame_count' # frame_count =>
          (inputs' = inputs /\ outputs' = outputs)]_vars
  /\ [][frame_count' = frame_count =>
          \E a \in Comps, b \in Comps :
            \A x \in Comps, y \in Comps :
              Count(inputs'[x], y) =
                Count(inputs[x], y) + (IF x = a /\ y = b THEN 1 ELSE 0)]_vars

\* a duplicate edge and a self-edge added to the simulation's wiring, which
\* has a cycle through the resistor, and a tick taken
C18_Witness ==
  /\ frame_count >= 1
  /\ Count(inputs["led"], "power_source") >= 2
  /\ \E a \in WComps : Count(inputs[a], a) >= 1
  /\ Count(inputs["resistor"], "quantum_box") = 1
  /\ Count(inputs["led"], "resistor") = 1

\* C21: the box becomes Stopped only on a tick whose index is a multiple of
\* 30, and while it is Running t_reset_count after tick k is floor(k / 30).
C21_Original ==
  /\ simulation_stopped => stop_tick % 30 = 0
  /\ ~simulation_stopped => t_reset_count = frame_count \div 30

=============================================================================
